---- MODULE Spec2Model ----
(***************************************************************************)
(* Contact-enrichment pipeline of zester841/overbase_assignment.           *)
(*                                                                         *)
(* The repository holds two implementations of the same pipeline:          *)
(*   "services" : src/src/services/{ranker,domains,emails,pipeline}.py     *)
(*                with src/src/utils.py                                    *)
(*   "main"     : src/main.py                                              *)
(* Both are modelled; the variable impl says which one a behaviour runs.   *)
(*                                                                         *)
(* A Python str is a sequence of one-character strings.  Characters that   *)
(* are not ASCII are written as tokens ("eacute", "emdash", "nbsp", ...).  *)
(* A missing cell (pandas NaN) is the value NaN, Python's None is None.    *)
(***************************************************************************)
EXTENDS Integers, Sequences, FiniteSets, TLC

VARIABLES
    impl,                \* "services" or "main"
    pc,                  \* position of the modelled call or batch run
    HIERARCHY_RULES,     \* configuration: the rules as given (any order)
    EXCLUSION_KEYWORDS,  \* configuration: the exclusion keywords
    DOMAIN_MAPPINGS,     \* configuration: function company name -> domain
    rules,               \* RankerEngine.rules / RankerService.rules (sorted)
    title,               \* argument of the ranker call
    rank,                \* result of the ranker call
    company,             \* argument of the resolver call
    domain,              \* result of the resolver call
    person,              \* arguments of the email generator call
    emails,              \* result of the email generator call
    df,                  \* batch: the input rows
    results,             \* batch: per-row results collected so far
    final_df             \* batch: the rows written to the output

vars == <<impl, pc, HIERARCHY_RULES, EXCLUSION_KEYWORDS, DOMAIN_MAPPINGS, rules,
          title, rank, company, domain, person, emails, df, results, final_df>>

----------------------------------------------------------------------------
(* Characters and Python str primitives                                    *)

LowerSeq == <<"a","b","c","d","e","f","g","h","i","j","k","l","m",
              "n","o","p","q","r","s","t","u","v","w","x","y","z">>
UpperSeq == <<"A","B","C","D","E","F","G","H","I","J","K","L","M",
              "N","O","P","Q","R","S","T","U","V","W","X","Y","Z">>
Lowers == {LowerSeq[i] : i \in 1..26}
Uppers == {UpperSeq[i] : i \in 1..26}
Digits == {"0","1","2","3","4","5","6","7","8","9"}

\* a missing cell as pandas reads it, and Python's None
NaN  == <<"NaN">>
None == <<"None">>

\* str.isspace() of one character; "nbsp" is U+00A0
IsSpace(c) == c \in {" ", "nbsp"}

\* regex \w on str patterns: letters, digits, underscore (Unicode letters too)
IsWordChar(c) == c \in Lowers \cup Uppers \cup Digits \cup {"_", "eacute", "acirc"}

LowerChar(c) ==
    IF c \in Uppers THEN LowerSeq[CHOOSE i \in 1..26 : UpperSeq[i] = c] ELSE c

\* str.lower()
Lower(s) == [i \in 1..Len(s) |-> LowerChar(s[i])]

\* Python `k in t` for two str
Contains(k, t) ==
    \E i \in 0..(Len(t) - Len(k)) : SubSeq(t, i + 1, i + Len(k)) = k

\* str.strip()
RECURSIVE LStrip(_)
LStrip(s) == IF s # <<>> /\ IsSpace(Head(s)) THEN LStrip(Tail(s)) ELSE s
RECURSIVE RStrip(_)
RStrip(s) ==
    IF s # <<>> /\ IsSpace(s[Len(s)]) THEN RStrip(SubSeq(s, 1, Len(s) - 1)) ELSE s
Strip(s) == RStrip(LStrip(s))

\* unidecode of one character: ASCII is kept, the rest is transliterated
UnidecodeChar(c) ==
    CASE c = "eacute" -> <<"e">>
      [] c = "emdash" -> <<"-", "-">>
      [] c = "nbsp"   -> <<" ">>
      [] c = "acirc"  -> <<"a">>
      [] c = "euro"   -> <<"E", "U", "R">>
      [] c = "rdquo"  -> <<"\"">>
      [] OTHER        -> <<c>>

RECURSIVE unidecode(_)
unidecode(s) == IF s = <<>> THEN <<>> ELSE UnidecodeChar(Head(s)) \o unidecode(Tail(s))

\* str(x) of a cell: float NaN prints as "nan", None as "None"
str(x) ==
    IF x = NaN THEN <<"n","a","n">>
    ELSE IF x = None THEN <<"N","o","n","e">>
    ELSE x

\* pd.isna(x) of a scalar
isna(x) == x = NaN \/ x = None

RECURSIVE Concat(_)
Concat(ss) == IF ss = <<>> THEN <<>> ELSE Head(ss) \o Concat(Tail(ss))

\* regex \b at position i (0..Len(t)) of t
WordBoundary(t, i) ==
    LET before == i >= 1 /\ IsWordChar(t[i])
        after  == i < Len(t) /\ IsWordChar(t[i + 1])
    IN  before # after

----------------------------------------------------------------------------
(* src/src/utils.py                                                        *)

\* the placeholder literals of StringUtils.sanitize: the first one is the
\* three characters a-circumflex, euro sign, right double quote
SanitizePlaceholders == { <<"acirc", "euro", "rdquo">>, <<"-">>, <<>> }

sanitize(text) ==
    IF isna(text) \/ Strip(str(text)) \in SanitizePlaceholders
    THEN <<>>
    ELSE Strip(unidecode(str(text)))

----------------------------------------------------------------------------
(* Seniority ranker                                                        *)

Excluded == 999

\* sorted(rules, key=level): Python's sort is stable
RECURSIVE InsertByLevel(_, _)
InsertByLevel(r, rs) ==
    IF rs = <<>> THEN <<r>>
    ELSE IF r.level < Head(rs).level THEN <<r>> \o rs
    ELSE <<Head(rs)>> \o InsertByLevel(r, Tail(rs))
RECURSIVE SortedByLevel(_)
SortedByLevel(rs) ==
    IF rs = <<>> THEN <<>>
    ELSE InsertByLevel(rs[Len(rs)], SortedByLevel(SubSeq(rs, 1, Len(rs) - 1)))

\* the alternatives of the pattern r'\b(' + '|'.join(exclusions) + r')\b':
\* joining no keyword gives the pattern \b()\b, whose group matches ""
ExcludeAlternatives(exclusions) ==
    IF exclusions = <<>> THEN { <<>> }
    ELSE { exclusions[i] : i \in 1..Len(exclusions) }

\* exclude_regex.search(t), compiled with re.IGNORECASE
exclude_regex_search(exclusions, t) ==
    \E k \in ExcludeAlternatives(exclusions) :
        \E i \in 0..(Len(t) - Len(k)) :
            /\ Lower(SubSeq(t, i + 1, i + Len(k))) = Lower(k)
            /\ WordBoundary(t, i)
            /\ WordBoundary(t, i + Len(k))

\* the value standing for "the call raised an exception and returned nothing"
Raised == -1

\* any(k in t for k in keywords), and the inner loop of get_rank: "hit" at
\* the first keyword found in t, "raise" at a keyword that is not a str
\* (JSON null) reached before any hit: `None in t` raises TypeError
RECURSIVE ScanKeywords(_, _)
ScanKeywords(keywords, t) ==
    IF keywords = <<>> THEN "miss"
    ELSE IF Head(keywords) = None THEN "raise"
    ELSE IF Contains(Head(keywords), t) THEN "hit"
    ELSE ScanKeywords(Tail(keywords), t)

\* the loop over the rules, in list order: the level of the first rule with
\* a keyword in t
RECURSIVE FirstMatchingLevel(_, _)
FirstMatchingLevel(rs, t) ==
    IF rs = <<>> THEN Excluded
    ELSE LET scan == ScanKeywords(Head(rs).keywords, t)
         IN  IF scan = "raise" THEN Raised
             ELSE IF scan = "hit" THEN Head(rs).level
             ELSE FirstMatchingLevel(Tail(rs), t)

\* RankerEngine.assess_seniority (title is a str)
assess_seniority(rs, exclusions, ttl) ==
    LET t == Lower(ttl)
    IN  IF exclude_regex_search(exclusions, t) THEN Excluded
        ELSE FirstMatchingLevel(rs, t)

\* RankerService.exclusions
LoweredExclusions(exclusions) == [i \in 1..Len(exclusions) |-> Lower(exclusions[i])]

\* RankerService.get_rank
get_rank(rs, exclusions, ttl) ==
    IF isna(ttl) THEN Excluded
    ELSE LET t == Strip(Lower(str(ttl)))
         IN  IF \E i \in 1..Len(exclusions) : Contains(LoweredExclusions(exclusions)[i], t)
             THEN Excluded
             ELSE FirstMatchingLevel(rs, t)

----------------------------------------------------------------------------
(* Name parsing: StringUtils.extract_nickname, and the same lines inside   *)
(* EmailGenService.generate                                                *)

\* str.replace(old, new), every occurrence, left to right (old is not empty)
RECURSIVE Replace(_, _, _)
Replace(s, old, new) ==
    IF Len(s) < Len(old) \/ old = <<>> THEN s
    ELSE IF SubSeq(s, 1, Len(old)) = old
         THEN new \o Replace(SubSeq(s, Len(old) + 1, Len(s)), old, new)
         ELSE <<Head(s)>> \o Replace(Tail(s), old, new)

\* str.split(): the maximal runs of characters that are not whitespace
RECURSIVE SplitFrom(_, _)
SplitFrom(s, cur) ==
    IF s = <<>> THEN (IF cur = <<>> THEN <<>> ELSE <<cur>>)
    ELSE IF IsSpace(Head(s))
         THEN (IF cur = <<>> THEN <<>> ELSE <<cur>>) \o SplitFrom(Tail(s), <<>>)
         ELSE SplitFrom(Tail(s), Append(cur, Head(s)))
Split(s) == SplitFrom(s, <<>>)

Quote == "\""

\* re.search(r'\"(.*?)\"', s): positions of the first quote and of the next one,
\* <<0, 0>> when there is no match
QuoteMatch(s) ==
    LET qs == {i \in 1..Len(s) : s[i] = Quote}
    IN  IF Cardinality(qs) < 2 THEN <<0, 0>>
        ELSE LET a == CHOOSE i \in qs : \A j \in qs : i <= j
                 b == CHOOSE i \in qs \ {a} : \A j \in qs \ {a} : i <= j
             IN  <<a, b>>

\* the lines shared by extract_nickname and EmailGenService.generate, from a
\* cleaned name: <<first, last, nick>>
ParseClean(clean) ==
    LET m      == QuoteMatch(clean)
        found  == m[1] # 0
        group  == SubSeq(clean, m[1] + 1, m[2] - 1)
        nick   == IF found THEN Replace(Lower(group), <<" ">>, <<>>) ELSE None
        rest   == IF found
                  THEN Replace(Replace(clean, <<Quote>> \o group \o <<Quote>>, <<>>),
                               <<" ", " ">>, <<" ">>)
                  ELSE clean
        parts  == Split(rest)
        first  == IF parts # <<>> THEN Lower(parts[1]) ELSE <<>>
        last   == IF Len(parts) > 1 THEN Lower(parts[Len(parts)]) ELSE <<>>
    IN  <<first, last, nick>>

\* StringUtils.extract_nickname
extract_nickname(full_name) == ParseClean(sanitize(full_name))

----------------------------------------------------------------------------
(* Domain resolver                                                         *)

S_com  == <<"c","o","m">>
DotCom == <<".">> \o S_com
S_TODO == <<"T","O","D","O">>
UnknownDomain == <<"u","n","k","n","o","w","n">> \o DotCom

\* the alternatives of r'\.(ai|io|com|net|org)$'
DomainSuffixes == { <<".","a","i">>, <<".","i","o">>, DotCom,
                    <<".","n","e","t">>, <<".","o","r","g">> }

EndsWith(s, suf) ==
    Len(s) >= Len(suf) /\ SubSeq(s, Len(s) - Len(suf) + 1, Len(s)) = suf

LooksLikeDomain(s) == \E suf \in DomainSuffixes : EndsWith(s, suf)

\* the alternatives of legal_strip
LegalWords == { <<"i","n","c">>, <<"l","t","d">>, <<"l","l","c">>,
                <<"c","o","r","p">>,
                <<"c","o","r","p","o","r","a","t","i","o","n">>,
                <<"c","o","m","p","a","n","y">>,
                <<"g","r","o","u","p">>, <<"l","a","b","s">> }

\* re.sub(r"\(.*?\)", "", s)
RECURSIVE RemoveParens(_)
RemoveParens(s) ==
    IF s = <<>> THEN s
    ELSE IF Head(s) = "(" /\ \E j \in 2..Len(s) : s[j] = ")"
         THEN LET j == CHOOSE k \in 2..Len(s) :
                           s[k] = ")" /\ \A l \in 2..(k - 1) : s[l] # ")"
              IN  RemoveParens(SubSeq(s, j + 1, Len(s)))
         ELSE <<Head(s)>> \o RemoveParens(Tail(s))

\* mutant of LegalStrip: the legal words removed wherever they occur, also
\* inside a longer word
RECURSIVE LegalStrip_anywhere(_)
LegalStrip_anywhere(s) ==
    IF s = <<>> THEN <<>>
    ELSE LET hits == {w \in LegalWords :
                        Len(w) <= Len(s) /\ Lower(SubSeq(s, 1, Len(w))) = w}
         IN  IF hits # {}
             THEN LegalStrip_anywhere(
                      SubSeq(s, Len(CHOOSE w \in hits : TRUE) + 1, Len(s)))
             ELSE <<Head(s)>> \o LegalStrip_anywhere(Tail(s))

\* legal_strip.sub("", s): i is the number of characters already scanned
RECURSIVE LegalStripFrom(_, _)
LegalStripFrom(s, i) ==
    IF i >= Len(s) THEN <<>>
    ELSE LET hits == {w \in LegalWords :
                        /\ i + Len(w) <= Len(s)
                        /\ Lower(SubSeq(s, i + 1, i + Len(w))) = w
                        /\ WordBoundary(s, i)
                        /\ WordBoundary(s, i + Len(w))}
         IN  IF hits # {}
             THEN LegalStripFrom(s, i + Len(CHOOSE w \in hits : TRUE))
             ELSE <<s[i + 1]>> \o LegalStripFrom(s, i + 1)
LegalStrip(s) == LegalStripFrom(s, 0)

\* re.sub(r"[^a-z0-9]", "", s)
OnlyAlnum(s) == SelectSeq(s, LAMBDA c : c \in Lowers \cup Digits)

\* the heuristic cleaning: domains.py lines 26-30, main.py lines 127-131
HeuristicDomain(clean) ==
    OnlyAlnum(LegalStrip(RemoveParens(Lower(clean)))) \o DotCom

\* DomainResolver.resolve
DomainResolver_resolve(mappings, comp) ==
    LET clean == sanitize(comp)
    IN  IF clean \in DOMAIN mappings
        THEN IF Contains(S_TODO, mappings[clean])
             THEN Replace(Lower(clean), <<" ">>, <<>>) \o DotCom
             ELSE mappings[clean]
        ELSE IF LooksLikeDomain(Lower(clean)) THEN Lower(clean)
        ELSE HeuristicDomain(clean)

\* DomainService.resolve
DomainService_resolve(mappings, comp) ==
    IF isna(comp) THEN UnknownDomain
    ELSE LET clean == Strip(unidecode(str(comp)))
         IN  IF clean \in DOMAIN mappings THEN mappings[clean]
             ELSE IF LooksLikeDomain(Lower(clean)) THEN Lower(clean)
             ELSE HeuristicDomain(clean)

----------------------------------------------------------------------------
(* Email candidate generator                                               *)

\* Python truth value of a str or None
Truthy(x) == x # <<>> /\ x # None

\* mutant of Dedup: the candidate list returned as built
Dedup_none(opts) == opts

\* list(dict.fromkeys(opts))
RECURSIVE Dedup(_)
Dedup(opts) ==
    IF opts = <<>> THEN <<>>
    ELSE LET init == Dedup(SubSeq(opts, 1, Len(opts) - 1))
             x    == opts[Len(opts)]
         IN  IF \E i \in 1..Len(init) : init[i] = x THEN init ELSE Append(init, x)

At(local, dom) == local \o <<"@">> \o dom

\* the candidate list before deduplication: emails.py lines 7-21,
\* main.py lines 151-159
Options(first, last, nick, dom, level) ==
    (IF Truthy(nick)
     THEN (IF Truthy(last) THEN <<At(nick \o <<".">> \o last, dom)>> ELSE <<>>)
          \o <<At(nick, dom)>>
     ELSE <<>>)
    \o (IF level = 1 /\ Truthy(first) THEN <<At(first, dom)>> ELSE <<>>)
    \o (IF Truthy(first) /\ Truthy(last)
        THEN <<At(first \o <<".">> \o last, dom), At(<<first[1]>> \o last, dom)>>
        ELSE <<>>)

\* EmailEngine.generate
EmailEngine_generate(first, last, nick, dom, level) ==
    IF ~Truthy(dom) THEN <<>>
    ELSE Dedup(Options(first, last, nick, dom, level))

\* the placeholder literals of EmailGenService.generate
NamePlaceholders == { <<"-">>, <<"emdash">>, <<>> }

\* the name parsing inside EmailGenService.generate, main.py lines 137-149:
\* the locals first, last and nick; a return at line 139 leaves none of them
EmailGenService_parse(name) ==
    LET clean == Strip(unidecode(str(name)))
    IN  IF clean \in NamePlaceholders THEN <<<<>>, <<>>, None>>
        ELSE ParseClean(clean)

\* EmailGenService.generate
EmailGenService_generate(name, dom, level) ==
    IF ~Truthy(dom) \/ dom = UnknownDomain THEN <<>>
    ELSE LET clean == Strip(unidecode(str(name)))
         IN  IF clean \in NamePlaceholders THEN <<>>
             ELSE LET p == ParseClean(clean)
                  IN  Dedup(Options(p[1], p[2], p[3], dom, level))

----------------------------------------------------------------------------
(* Inputs of the unit calls                                                *)

S_cto     == <<"c","t","o">>
S_CTO     == <<"C","T","O">>
S_ceo     == <<"c","e","o">>
S_vp      == <<"v","p">>
S_manager == <<"m","a","n","a","g","e","r">>

Impls == {"services", "main"}

\* every concatenation of at most n pieces
RECURSIVE Concats(_, _)
Concats(pieces, n) ==
    IF n = 0 THEN { <<>> }
    ELSE LET shorter == Concats(pieces, n - 1)
         IN  shorter \cup { s \o p : s \in shorter, p \in pieces }

MaxTitlePieces == 3
TitlePieces == { S_cto, S_CTO, S_vp, S_manager, <<"s">>, <<" ">>, <<"-">> }
Titles == Concats(TitlePieces, MaxTitlePieces)

Rule(l, n, ks) == [level |-> l, name |-> n, keywords |-> ks]
RuleLists ==
    { << Rule(1, "Strategic", <<S_ceo, S_cto>>), Rule(2, "Executive", <<S_vp>>) >>,
      << Rule(2, "Executive", <<S_vp>>), Rule(1, "Strategic", <<S_ceo, S_cto>>) >>,
      << Rule(3, "Senior", <<S_manager, S_vp>>), Rule(2, "Executive", <<>>),
         Rule(1, "Strategic", <<S_cto>>) >> }
ExclusionLists == { <<>>, <<S_manager>>, <<S_vp, S_manager>> }

NoMappings == <<>>

----------------------------------------------------------------------------
(* Ranker calls                                                            *)

InitRanker ==
    /\ impl \in Impls
    /\ pc = "ranker"
    /\ HIERARCHY_RULES \in RuleLists
    /\ EXCLUSION_KEYWORDS \in ExclusionLists
    /\ DOMAIN_MAPPINGS = NoMappings
    /\ rules = SortedByLevel(HIERARCHY_RULES)
    /\ title \in (IF impl = "main" THEN Titles \cup {NaN} ELSE Titles)
    /\ rank = 0
    /\ company = <<>> /\ domain = <<>> /\ person = <<>> /\ emails = <<>>
    /\ df = <<>> /\ results = <<>> /\ final_df = <<>>

\* RankerEngine.assess_seniority(title)
AssessSeniority ==
    /\ impl = "services" /\ pc = "ranker"
    /\ rank' = assess_seniority(rules, EXCLUSION_KEYWORDS, title)
    /\ pc' = "ranked"
    /\ UNCHANGED <<impl, HIERARCHY_RULES, EXCLUSION_KEYWORDS, DOMAIN_MAPPINGS, rules,
                   title, company, domain, person, emails, df, results, final_df>>

\* RankerService.get_rank(title)
GetRank ==
    /\ impl = "main" /\ pc = "ranker"
    /\ rank' = get_rank(rules, EXCLUSION_KEYWORDS, title)
    /\ pc' = "ranked"
    /\ UNCHANGED <<impl, HIERARCHY_RULES, EXCLUSION_KEYWORDS, DOMAIN_MAPPINGS, rules,
                   title, company, domain, person, emails, df, results, final_df>>

NextRanker == AssessSeniority \/ GetRank
SpecRanker == InitRanker /\ [][NextRanker]_vars

\* the title as text: an absent title has none
TitleText == IF isna(title) THEN <<>> ELSE title

ExclusionOccurs ==
    \E i \in 1..Len(EXCLUSION_KEYWORDS) : Contains(EXCLUSION_KEYWORDS[i], Lower(TitleText))

\* the levels of the configured rules with a keyword in the lowercased title
MatchingLevels ==
    { HIERARCHY_RULES[i].level : i \in
        { j \in 1..Len(HIERARCHY_RULES) :
            \E k \in 1..Len(HIERARCHY_RULES[j].keywords) :
                Contains(HIERARCHY_RULES[j].keywords[k], Lower(TitleText)) } }

\* C1: a title in which a configured exclusion keyword occurs as a substring is
\* ranked 999, whatever hierarchy keywords it also holds.
C1_ExclusionAlwaysWins ==
    (pc = "ranked" /\ ExclusionOccurs) => rank = Excluded

\* C2: a title with no exclusion keyword in it gets the lowest level among the
\* rules with a keyword in it, in whatever order the rules were configured, and
\* 999 (no error) when no rule has one.
C2_LowestMatchingLevel ==
    (pc = "ranked" /\ ~ExclusionOccurs) =>
        rank = IF MatchingLevels = {} THEN Excluded
               ELSE CHOOSE l \in MatchingLevels : \A m \in MatchingLevels : l <= m

----------------------------------------------------------------------------
(* Resolver calls                                                          *)

S_Acme      == <<"A","c","m","e">>
S_Corp      == <<"C","o","r","p">>
S_AcmeCorp  == S_Acme \o <<" ">> \o S_Corp
S_dot_io    == <<".","i","o">>
S_acme_io   == <<"a","c","m","e">> \o S_dot_io
S_TODO_FILL == S_TODO \o <<"_","F","I","L","L">> \o DotCom
S_dot_co    == <<".","c","o">>

MaxCompanyPieces == 3
CompanyPieces == { S_Acme, S_Corp, <<" ">>, <<"-">>, <<"(">>, <<")">>, S_dot_io,
                   S_dot_co, <<"emdash">> }
Companies == Concats(CompanyPieces, MaxCompanyPieces)

MappingTables ==
    { NoMappings,
      S_AcmeCorp :> S_TODO_FILL,
      (S_AcmeCorp :> S_acme_io) @@ (S_Acme :> S_TODO_FILL) }

InitDomain ==
    /\ impl \in Impls
    /\ pc = "resolver"
    /\ HIERARCHY_RULES = <<>> /\ EXCLUSION_KEYWORDS = <<>> /\ rules = <<>>
    /\ DOMAIN_MAPPINGS \in MappingTables
    /\ company \in Companies \cup {NaN}
    /\ domain = <<>>
    /\ title = <<>> /\ rank = 0 /\ person = <<>> /\ emails = <<>>
    /\ df = <<>> /\ results = <<>> /\ final_df = <<>>

\* DomainResolver.resolve(company)
ResolverResolve ==
    /\ impl = "services" /\ pc = "resolver"
    /\ domain' = DomainResolver_resolve(DOMAIN_MAPPINGS, company)
    /\ pc' = "resolved"
    /\ UNCHANGED <<impl, HIERARCHY_RULES, EXCLUSION_KEYWORDS, DOMAIN_MAPPINGS, rules,
                   title, rank, company, person, emails, df, results, final_df>>

\* DomainService.resolve(company)
ServiceResolve ==
    /\ impl = "main" /\ pc = "resolver"
    /\ domain' = DomainService_resolve(DOMAIN_MAPPINGS, company)
    /\ pc' = "resolved"
    /\ UNCHANGED <<impl, HIERARCHY_RULES, EXCLUSION_KEYWORDS, DOMAIN_MAPPINGS, rules,
                   title, rank, company, person, emails, df, results, final_df>>

NextDomain == ResolverResolve \/ ServiceResolve
SpecDomain == InitDomain /\ [][NextDomain]_vars

\* what the running implementation resolves a company to under a mapping table
Resolve(mappings, comp) ==
    IF impl = "services" THEN DomainResolver_resolve(mappings, comp)
    ELSE DomainService_resolve(mappings, comp)

\* C3: a mapped company resolves to its mapped value unless that value holds
\* "TODO"; a "TODO" value resolves to what the company would resolve to with no
\* mapping entry at all.
C3_MappingPrecedence ==
    (pc = "resolved" /\ sanitize(company) \in DOMAIN DOMAIN_MAPPINGS) =>
        domain = IF Contains(S_TODO, DOMAIN_MAPPINGS[sanitize(company)])
                 THEN Resolve(NoMappings, company)
                 ELSE DOMAIN_MAPPINGS[sanitize(company)]

\* a company cell that is absent, empty, whitespace-only or a placeholder token
AbsentCompany(comp) ==
    isna(comp) \/ Strip(comp) \in { <<>>, <<"-">>, <<"emdash">> }

\* C4: an absent, empty, whitespace-only or placeholder company resolves to
\* the sentinel "unknown.com".
C4_AbsentCompanyIsUnknown ==
    (pc = "resolved" /\ AbsentCompany(company)) => domain = UnknownDomain

\* whether the mapping table holds a value to be used for the normalized name:
\* an entry whose value is not an unresolved "TODO" placeholder
UsableMapping(mappings, clean) ==
    clean \in DOMAIN mappings /\ ~Contains(S_TODO, mappings[clean])

\* the domain suffixes the specification names
NamedSuffixes == DomainSuffixes \cup { S_dot_co }

\* C11: a company without usable mapping entry whose normalized name ends in
\* one of .com, .io, .ai, .net, .org, .co resolves to that name lowercased
\* and otherwise unchanged.
C11_AlreadyDomainKept ==
    (/\ pc = "resolved"
     /\ ~UsableMapping(DOMAIN_MAPPINGS, sanitize(company))
     /\ \E suf \in NamedSuffixes : EndsWith(Lower(sanitize(company)), suf))
        => domain = Lower(sanitize(company))

----------------------------------------------------------------------------
(* Heuristic resolution: the resolvers called on names that take the       *)
(* derivation of domains.py lines 26-30 and main.py lines 127-131           *)

S_Company == <<"C","o","m","p","a","n","y">>
S_company == Lower(S_Company)

MaxHeuristicPieces == 3
HeuristicPieces == { S_Acme, S_Company, S_Corp, <<" ">>, <<"(">>, <<")">>,
                     <<"C","o","m","-","p","a","n","y">> }
HeuristicCompanies == Concats(HeuristicPieces, MaxHeuristicPieces)

InitHeuristic ==
    /\ impl \in Impls
    /\ pc = "resolver"
    /\ HIERARCHY_RULES = <<>> /\ EXCLUSION_KEYWORDS = <<>> /\ rules = <<>>
    /\ DOMAIN_MAPPINGS = NoMappings
    /\ company \in HeuristicCompanies
    /\ domain = <<>>
    /\ title = <<>> /\ rank = 0 /\ person = <<>> /\ emails = <<>>
    /\ df = <<>> /\ results = <<>> /\ final_df = <<>>

SpecHeuristic == InitHeuristic /\ [][NextDomain]_vars

\* the company name as the running implementation normalizes it
CleanCompany ==
    IF impl = "services" THEN sanitize(company) ELSE Strip(unidecode(str(company)))

\* the heuristic path: a name that is there, has no usable mapping entry and
\* ends in none of the named suffixes
OnHeuristicPath ==
    /\ pc = "resolved"
    /\ ~isna(company) /\ CleanCompany # <<>>
    /\ ~UsableMapping(DOMAIN_MAPPINGS, CleanCompany)
    /\ ~\E suf \in NamedSuffixes : EndsWith(Lower(CleanCompany), suf)

\* the closing parenthesis of the span opened at a: the nearest one after a
SpanClose(s, a) ==
    CHOOSE b \in (a + 1)..Len(s) :
        s[b] = ")" /\ \A c \in (a + 1)..(b - 1) : s[c] # ")"

\* position a opens a parenthetical span: an opening parenthesis with a closing
\* one after it, outside every span opened before it
RECURSIVE OpensSpan(_, _)
OpensSpan(s, a) ==
    /\ s[a] = "("
    /\ \E b \in (a + 1)..Len(s) : s[b] = ")"
    /\ \A a2 \in 1..(a - 1) : OpensSpan(s, a2) => SpanClose(s, a2) < a

InSpan(s, i) ==
    \E a \in 1..i : OpensSpan(s, a) /\ i <= SpanClose(s, a)

\* the characters of s at the positions in K, in order
RECURSIVE Restrict(_, _, _)
Restrict(s, K, i) ==
    IF i > Len(s) THEN <<>>
    ELSE (IF i \in K THEN <<s[i]>> ELSE <<>>) \o Restrict(s, K, i + 1)

\* the whole word around position i of t: the longest run of word characters
WordAround(t, i) ==
    LET lo == CHOOSE l \in 1..i :
                  /\ \A j \in l..i : IsWordChar(t[j])
                  /\ (l = 1 \/ ~IsWordChar(t[l - 1]))
        hi == CHOOSE h \in i..Len(t) :
                  /\ \A j \in i..h : IsWordChar(t[j])
                  /\ (h = Len(t) \/ ~IsWordChar(t[h + 1]))
    IN  SubSeq(t, lo, hi)

\* the derivation the specification describes, from a normalized name: the
\* lowercased name without its parenthetical spans, of which stay the
\* lowercase letters and digits that are not part of a whole legal word
Derived(clean) ==
    LET l == Lower(clean)
        t == Restrict(l, { i \in 1..Len(l) : ~InSpan(l, i) }, 1)
    IN  Restrict(t, { i \in 1..Len(t) :
                        /\ t[i] \in Lowers \cup Digits
                        /\ WordAround(t, i) \notin LegalWords }, 1) \o DotCom

\* str.join(" ", tokens)
RECURSIVE Join(_)
Join(tokens) ==
    IF tokens = <<>> THEN <<>>
    ELSE IF Len(tokens) = 1 THEN tokens[1]
    ELSE tokens[1] \o <<" ">> \o Join(Tail(tokens))

\* the whitespace-separated words of the name that are "company"
CompanyWords(clean) ==
    { k \in 1..Len(Split(clean)) : Lower(Split(clean)[k]) = S_company }

\* the name without its k-th word
WithoutWord(clean, k) ==
    LET ws == Split(clean)
    IN  Join(SubSeq(ws, 1, k - 1) \o SubSeq(ws, k + 1, Len(ws)))

\* C12 as stated: on the heuristic path the domain is the derivation of the
\* name, the part before ".com" holds only lowercase letters and digits, and
\* when "company" is a separate word of the name the domain does not contain
\* "company".
C12_CompanyNeverAppears ==
    OnHeuristicPath =>
        /\ domain = Derived(CleanCompany)
        /\ \A i \in 1..(Len(domain) - Len(DotCom)) : domain[i] \in Lowers \cup Digits
        /\ CompanyWords(CleanCompany) # {} => ~Contains(S_company, domain)

\* C12 amended: on the heuristic path the domain is the derivation of the
\* name, the part before ".com" holds only lowercase letters and digits, and
\* a separate word "company" adds nothing to it: the domain is the derivation
\* of the name without that word.
C12_HeuristicDerivation ==
    OnHeuristicPath =>
        /\ domain = Derived(CleanCompany)
        /\ EndsWith(domain, DotCom)
        /\ \A i \in 1..(Len(domain) - Len(DotCom)) : domain[i] \in Lowers \cup Digits
        /\ \A k \in CompanyWords(CleanCompany) :
               domain = Derived(WithoutWord(CleanCompany, k))

\* C12 witness: a resolved name with a separate word "company" and another
\* word that is left for the domain
C12_Witness ==
    /\ OnHeuristicPath
    /\ CompanyWords(CleanCompany) # {}
    /\ Len(Split(CleanCompany)) > 1
    /\ Len(domain) > Len(DotCom)

----------------------------------------------------------------------------
(* Name parser calls                                                       *)

S_Jen_  == <<"J","e","n"," ">>
S_Lee_  == <<"L","e","e">>
S_QJJ_  == <<Quote, "J", " ", "J", Quote, " ">>

MaxParsePieces == 3
ParsePieces == { S_Jen_, S_Lee_, S_QJJ_, <<Quote>>, <<" ">>, <<"-">>, <<"emdash">> }
ParseNames == Concats(ParsePieces, MaxParsePieces)

\* the domain the generator of main.py is called with here, at tier 1
ParseDomain == <<"a","c","m","e",".","i","o">>

InitParser ==
    /\ impl \in Impls
    /\ pc = "parser"
    /\ HIERARCHY_RULES = <<>> /\ EXCLUSION_KEYWORDS = <<>> /\ rules = <<>>
    /\ DOMAIN_MAPPINGS = NoMappings
    /\ person \in [name : ParseNames \cup {NaN}]
    /\ emails = <<>>
    /\ title = <<>> /\ rank = 0 /\ company = <<>> /\ domain = <<>>
    /\ df = <<>> /\ results = <<>> /\ final_df = <<>>

Parsed(name, p) == [name |-> name, first |-> p[1], last |-> p[2], nick |-> p[3]]

\* StringUtils.extract_nickname(full_name)
ExtractNickname ==
    /\ impl = "services" /\ pc = "parser"
    /\ person' = Parsed(person.name, extract_nickname(person.name))
    /\ pc' = "parsed"
    /\ UNCHANGED <<impl, HIERARCHY_RULES, EXCLUSION_KEYWORDS, DOMAIN_MAPPINGS, rules,
                   title, rank, company, domain, emails, df, results, final_df>>

\* EmailGenService.generate(name, domain, rank), with the name parts it worked
\* out on the way
GenerateParsed ==
    /\ impl = "main" /\ pc = "parser"
    /\ person' = Parsed(person.name, EmailGenService_parse(person.name))
    /\ emails' = EmailGenService_generate(person.name, ParseDomain, 1)
    /\ pc' = "parsed"
    /\ UNCHANGED <<impl, HIERARCHY_RULES, EXCLUSION_KEYWORDS, DOMAIN_MAPPINGS, rules,
                   title, rank, company, domain, df, results, final_df>>

NextParser == ExtractNickname \/ GenerateParsed
SpecParser == InitParser /\ [][NextParser]_vars

\* the normalizer as the specification describes it: the empty string for an
\* absent cell, "-", an em-dash, the empty and the whitespace-only string,
\* otherwise the text transliterated and trimmed
Normalized(raw) ==
    IF isna(raw) \/ Strip(raw) \in { <<>>, <<"-">>, <<"emdash">> } THEN <<>>
    ELSE Strip(unidecode(raw))

\* s without its characters a..b
Cut(s, a, b) == SubSeq(s, 1, a - 1) \o SubSeq(s, b + 1, Len(s))

\* the parse the specification describes, from a raw name
DescribedParse(raw) ==
    LET clean  == Normalized(raw)
        m      == QuoteMatch(clean)
        found  == m[1] # 0
        rest   == IF found THEN Cut(clean, m[1], m[2]) ELSE clean
        tokens == Split(rest)
    IN  [ first |-> IF tokens # <<>> THEN Lower(tokens[1]) ELSE <<>>,
          last  |-> IF Len(tokens) >= 2 THEN Lower(tokens[Len(tokens)]) ELSE <<>>,
          nick  |-> IF found
                    THEN SelectSeq(Lower(SubSeq(clean, m[1] + 1, m[2] - 1)),
                                   LAMBDA c : c # " ")
                    ELSE None ]

\* C13: the parsed name is the one described: the nickname is the first
\* double-quoted span lowercased without its spaces, first is the first token
\* that remains, last is the last token that remains if and only if at least
\* two remain, a name that is only a quoted nickname has empty first and last,
\* and an empty or placeholder name gives an all-empty result.
C13_NoLastFromSingleToken ==
    pc = "parsed" =>
        LET d == DescribedParse(person.name)
        IN  /\ person.first = d.first
            /\ person.last = d.last
            /\ person.nick = d.nick
            /\ Normalized(person.name) = <<>> =>
                   person.first = <<>> /\ person.last = <<>> /\ ~Truthy(person.nick)

----------------------------------------------------------------------------
(* Normalizer calls: StringUtils.sanitize, and the normalization at the    *)
(* head of EmailGenService.generate in main.py, which has no function of   *)
(* its own for it                                                          *)

MaxTextPieces == 3
TextPieces == { <<"-">>, <<"emdash">>, <<" ">>, <<"nbsp">>, <<"eacute">>,
                <<"J","e","n">> }
RawTexts == Concats(TextPieces, MaxTextPieces)

InitNormalizer ==
    /\ impl \in Impls
    /\ pc = IF impl = "services" THEN "normalizer" ELSE "parser"
    /\ HIERARCHY_RULES = <<>> /\ EXCLUSION_KEYWORDS = <<>> /\ rules = <<>>
    /\ DOMAIN_MAPPINGS = NoMappings
    /\ person \in [name : RawTexts \cup {NaN, None}]
    /\ emails = <<>>
    /\ title = <<>> /\ rank = 0 /\ company = <<>> /\ domain = <<>>
    /\ df = <<>> /\ results = <<>> /\ final_df = <<>>

\* StringUtils.sanitize(text)
Sanitize ==
    /\ impl = "services" /\ pc = "normalizer"
    /\ person' = [name |-> person.name, clean |-> sanitize(person.name)]
    /\ pc' = "normalized"
    /\ UNCHANGED <<impl, HIERARCHY_RULES, EXCLUSION_KEYWORDS, DOMAIN_MAPPINGS, rules,
                   title, rank, company, domain, emails, df, results, final_df>>

NextNormalizer == Sanitize \/ GenerateParsed
SpecNormalizer == InitNormalizer /\ [][NextNormalizer]_vars

\* C14: for an absent or placeholder text (null, NaN, "-", an em-dash, the
\* empty or a whitespace-only string, also surrounded by whitespace) the
\* normalizer returns the empty string, and what comes after it treats the
\* field as empty: the generator of main.py, given such a name, returns no
\* candidate.
C14_PlaceholderIsEmpty ==
    Normalized(person.name) = <<>> =>
        /\ pc = "normalized" => person.clean = <<>>
        /\ pc = "parsed" => emails = <<>>

----------------------------------------------------------------------------
(* Email generator calls                                                   *)

S_jen  == <<"j","e","n">>
S_jj   == <<"j","j">>
S_lee  == <<"l","e","e">>
S_jlee == <<"j">> \o S_lee
S_Jen  == <<"J","e","n">>
S_Lee  == <<"L","e","e">>
S_JJ   == <<"J","J">>
Quoted(s) == <<Quote>> \o s \o <<Quote>>

Firsts    == { <<>>, S_jen, <<"j">> }
Lasts     == { <<>>, S_lee }
Nicks     == { None, <<>>, S_jj, S_jen, S_jlee }
Domains   == { <<>>, UnknownDomain, S_acme_io }
Levels    == { 1, 2, 3 }

MaxNamePieces == 3
NamePieces == { S_Jen \o <<" ">>, S_Lee, Quoted(S_JJ) \o <<" ">>,
                Quoted(S_Jen) \o <<" ">>, <<Quote>>, <<"-">> }
Names == Concats(NamePieces, MaxNamePieces)

\* the arguments of EmailEngine.generate and of EmailGenService.generate
Persons ==
    IF impl = "services"
    THEN [first : Firsts, last : Lasts, nick : Nicks, domain : Domains, level : Levels]
    ELSE [name : Names \cup {NaN}, domain : Domains, level : Levels]

InitEmail ==
    /\ impl \in Impls
    /\ pc = "generator"
    /\ HIERARCHY_RULES = <<>> /\ EXCLUSION_KEYWORDS = <<>> /\ rules = <<>>
    /\ DOMAIN_MAPPINGS = NoMappings
    /\ person \in Persons
    /\ emails = <<>>
    /\ title = <<>> /\ rank = 0 /\ company = <<>> /\ domain = <<>>
    /\ df = <<>> /\ results = <<>> /\ final_df = <<>>

\* EmailEngine.generate(first, last, nick, domain, level)
EngineGenerate ==
    /\ impl = "services" /\ pc = "generator"
    /\ emails' = EmailEngine_generate(person.first, person.last, person.nick,
                                      person.domain, person.level)
    /\ pc' = "generated"
    /\ UNCHANGED <<impl, HIERARCHY_RULES, EXCLUSION_KEYWORDS, DOMAIN_MAPPINGS, rules,
                   title, rank, company, domain, person, df, results, final_df>>

\* EmailGenService.generate(name, domain, rank)
ServiceGenerate ==
    /\ impl = "main" /\ pc = "generator"
    /\ emails' = EmailGenService_generate(person.name, person.domain, person.level)
    /\ pc' = "generated"
    /\ UNCHANGED <<impl, HIERARCHY_RULES, EXCLUSION_KEYWORDS, DOMAIN_MAPPINGS, rules,
                   title, rank, company, domain, person, df, results, final_df>>

NextEmail == EngineGenerate \/ ServiceGenerate
SpecEmail == InitEmail /\ [][NextEmail]_vars

\* C5: with an empty domain or the sentinel "unknown.com" the generator
\* returns no candidate, whatever the name parts and the tier.
C5_NoEmailWithoutDomain ==
    (pc = "generated" /\ person.domain \in { <<>>, UnknownDomain }) => emails = <<>>


\* the name parts the generator builds its candidates from
GenParts ==
    IF impl = "services" THEN <<person.first, person.last, person.nick>>
    ELSE LET clean == Strip(unidecode(str(person.name)))
         IN  IF clean \in NamePlaceholders THEN << <<>>, <<>>, None >>
             ELSE ParseClean(clean)

RealDomain == person.domain \notin { <<>>, UnknownDomain }

\* which of the five candidates apply, and what each is
Applicable ==
    LET first == GenParts[1]
        last  == GenParts[2]
        nick  == GenParts[3]
    IN  { k \in 1..5 :
            \/ k = 1 /\ Truthy(nick) /\ Truthy(last)
            \/ k = 2 /\ Truthy(nick)
            \/ k = 3 /\ person.level = 1 /\ Truthy(first)
            \/ k \in {4, 5} /\ Truthy(first) /\ Truthy(last) }

Candidate(k) ==
    LET first == GenParts[1]
        last  == GenParts[2]
        nick  == GenParts[3]
        local == CASE k = 1 -> nick \o <<".">> \o last
                   [] k = 2 -> nick
                   [] k = 3 -> first
                   [] k = 4 -> first \o <<".">> \o last
                   [] k = 5 -> <<first[1]>> \o last
    IN  local \o <<"@">> \o person.domain

\* the first applicable candidate equal to the address x
FirstPosition(x) ==
    CHOOSE k \in Applicable :
        Candidate(k) = x /\ \A m \in Applicable : Candidate(m) = x => k <= m

\* C6: for a real domain the result holds exactly the applicable candidates,
\* each once, in the order of their first occurrence in the fixed candidate
\* order, and so at most 5 of them.
C6_OrderedDistinctCandidates ==
    (pc = "generated" /\ RealDomain) =>
        /\ Len(emails) <= 5
        /\ \A i, j \in 1..Len(emails) : i # j => emails[i] # emails[j]
        /\ { emails[i] : i \in 1..Len(emails) } = { Candidate(k) : k \in Applicable }
        /\ \A i, j \in 1..Len(emails) :
               i < j => FirstPosition(emails[i]) < FirstPosition(emails[j])

\* C6 witness: all five candidates apply and two of them coincide with earlier
\* ones, so that deduplication has removed entries.
C6_Witness ==
    /\ pc = "generated" /\ RealDomain
    /\ Applicable = 1..5
    /\ Len(emails) = 3

----------------------------------------------------------------------------
(* Record orchestrator and batch step                                      *)
(*                                                                         *)
(* A row of the input frame is [Name, Title, Company], each a str or NaN.  *)
(* The Optional[pd.Series] a worker returns is <<>> for None and <<r>> for *)
(* the series r.  DataFrame.apply(worker, axis=1) calls the worker once    *)
(* per row, in any order, and builds one result row per input row (all     *)
(* NaN for None); an exception in a worker leaves apply and its caller.    *)
(* The workers are pure, so the rows are taken in input order.  How pandas *)
(* shapes the result of apply when the first worker returns None is not    *)
(* modelled: the result is taken to be a frame in every case.              *)

\* Pipeline._worker: the exception case
worker_raises(rs, exclusions, row) ==
    assess_seniority(rs, exclusions, sanitize(row.Title)) = Raised

\* mutant of _worker: the seniority filter is missing
worker_unfiltered(rs, exclusions, mappings, row) ==
    LET ttl  == sanitize(row.Title)
        rnk  == assess_seniority(rs, exclusions, ttl)
        p    == extract_nickname(row.Name)
        dom  == DomainResolver_resolve(mappings, row.Company)
        mail == EmailEngine_generate(p[1], p[2], p[3], dom, rnk)
    IN  << [ Name |-> row.Name, Title |-> ttl, Company |-> row.Company, Rank |-> rnk,
             Email_1 |-> IF Len(mail) > 0 THEN mail[1] ELSE <<>>,
             Email_2 |-> IF Len(mail) > 1 THEN mail[2] ELSE <<>>,
             Domain_Source |-> dom ] >>

\* mutant of _worker: the Title and Company columns are written swapped
worker_swapped(rs, exclusions, mappings, row) ==
    LET ttl  == sanitize(row.Title)
        rnk  == assess_seniority(rs, exclusions, ttl)
        p    == extract_nickname(row.Name)
        dom  == DomainResolver_resolve(mappings, row.Company)
        mail == EmailEngine_generate(p[1], p[2], p[3], dom, rnk)
    IN  IF rnk = Excluded THEN <<>>
        ELSE << [ Name |-> row.Name, Title |-> row.Company, Company |-> ttl, Rank |-> rnk,
                  Email_1 |-> IF Len(mail) > 0 THEN mail[1] ELSE <<>>,
                  Email_2 |-> IF Len(mail) > 1 THEN mail[2] ELSE <<>>,
                  Domain_Source |-> dom ] >>

\* Pipeline._worker (when it does not raise)
worker(rs, exclusions, mappings, row) ==
    LET ttl  == sanitize(row.Title)
        rnk  == assess_seniority(rs, exclusions, ttl)
        p    == extract_nickname(row.Name)
        dom  == DomainResolver_resolve(mappings, row.Company)
        mail == EmailEngine_generate(p[1], p[2], p[3], dom, rnk)
    IN  IF rnk = Excluded THEN <<>>
        ELSE << [ Name |-> row.Name, Title |-> ttl, Company |-> row.Company, Rank |-> rnk,
                  Email_1 |-> IF Len(mail) > 0 THEN mail[1] ELSE <<>>,
                  Email_2 |-> IF Len(mail) > 1 THEN mail[2] ELSE <<>>,
                  Domain_Source |-> dom ] >>

\* ExecutiveProcessor.transform_row: the exception case
transform_row_raises(rs, exclusions, row) ==
    get_rank(rs, exclusions, Strip(unidecode(str(row.Title)))) = Raised

\* ExecutiveProcessor.transform_row with ExecutiveProfile.to_dict (when it
\* does not raise)
transform_row(rs, exclusions, mappings, row) ==
    LET ttl  == Strip(unidecode(str(row.Title)))
        rnk  == get_rank(rs, exclusions, ttl)
        dom  == DomainService_resolve(mappings, row.Company)
        mail == EmailGenService_generate(row.Name, dom, rnk)
    IN  IF rnk = Excluded THEN <<>>
        ELSE << [ Name |-> row.Name, Title |-> ttl, Company |-> row.Company,
                  Seniority_Level |-> rnk,
                  Email_1 |-> IF Len(mail) > 0 THEN mail[1] ELSE <<>>,
                  Email_2 |-> IF Len(mail) > 1 THEN mail[2] ELSE <<>>,
                  Domain_Used |-> dom ] >>

\* the level and domain columns, named differently by the two implementations
LevelOf(r)  == IF "Rank" \in DOMAIN r THEN r.Rank ELSE r.Seniority_Level
DomainOf(r) == IF "Domain_Source" \in DOMAIN r THEN r.Domain_Source ELSE r.Domain_Used

\* the columns that hold a str or a missing value (the level is an int)
TextColumns(r) == DOMAIN r \ {"Rank", "Seniority_Level"}

\* DataFrame.dropna(): the rows with no missing value in any column; the row
\* of a None result is missing everywhere
RECURSIVE dropna(_)
dropna(res) ==
    IF res = <<>> THEN <<>>
    ELSE LET r == Head(res)
         IN  (IF r # <<>> /\ \A f \in TextColumns(r[1]) : ~isna(r[1][f]) THEN r ELSE <<>>)
             \o dropna(Tail(res))

\* the characters in code point order
CharOrder == <<" ", "\"", "(", ")", "-", ".">>
             \o <<"0","1","2","3","4","5","6","7","8","9">> \o <<"@">>
             \o UpperSeq \o <<"_">> \o LowerSeq
             \o <<"nbsp", "acirc", "eacute", "emdash", "rdquo", "euro">>
Ord(c) == CHOOSE i \in 1..Len(CharOrder) : CharOrder[i] = c

\* a < b for two str
RECURSIVE StrLess(_, _)
StrLess(a, b) ==
    IF b = <<>> THEN FALSE
    ELSE IF a = <<>> THEN TRUE
    ELSE IF Head(a) = Head(b) THEN StrLess(Tail(a), Tail(b))
    ELSE Ord(Head(a)) < Ord(Head(b))

\* the sort key (level, Company) of sort_values
KeyLess(x, y) ==
    \/ LevelOf(x) < LevelOf(y)
    \/ LevelOf(x) = LevelOf(y) /\ StrLess(x.Company, y.Company)

\* sort_values(by=[level, 'Company']): ascending, equal keys keep their order
RECURSIVE InsertByKey(_, _)
InsertByKey(x, rows) ==
    IF rows = <<>> THEN <<x>>
    ELSE IF KeyLess(x, Head(rows)) THEN <<x>> \o rows
    ELSE <<Head(rows)>> \o InsertByKey(x, Tail(rows))
RECURSIVE sort_values(_)
sort_values(rows) ==
    IF rows = <<>> THEN <<>>
    ELSE InsertByKey(rows[Len(rows)], sort_values(SubSeq(rows, 1, Len(rows) - 1)))

\* the row count of .head(50)
TopN == 50

head(rows, n) == SubSeq(rows, 1, IF Len(rows) < n THEN Len(rows) ELSE n)

\* pipeline.py lines 68-69, main.py lines 244-245
Finalize(res) == head(sort_values(dropna(res)), TopN)

----------------------------------------------------------------------------
(* Batch runs: Pipeline.run and PipelineContext.execute                    *)

S_JenLee == S_Jen \o <<" ">> \o S_Lee
Row(n, t, c) == [Name |-> n, Title |-> t, Company |-> c]

BatchRows ==
    { Row(S_Jen \o <<" ">> \o Quoted(S_JJ) \o <<" ">> \o S_Lee, <<" ">> \o S_CTO, S_AcmeCorp),
      Row(S_Lee, S_vp, S_Corp),
      Row(S_JenLee, S_manager, S_Acme),
      Row(NaN, S_ceo, S_acme_io),
      Row(S_JenLee, NaN, NaN),
      Row(<<"J", "eacute", "n">>, <<"nbsp">> \o S_vp \o <<" ", "eacute">>, <<"-">>) }

\* a qualifying row repeated to fill the output
FillerRow == Row(S_JenLee, S_vp, S_Acme)

MaxRows == 2

RECURSIVE SeqsUpTo(_, _)
SeqsUpTo(S, n) ==
    IF n = 0 THEN { <<>> }
    ELSE LET shorter == SeqsUpTo(S, n - 1)
         IN  shorter \cup { Append(q, x) : q \in shorter, x \in S }

\* the input frames: one to MaxRows rows, and fewer than MaxRows rows followed
\* by TopN fillers
Frames ==
    (SeqsUpTo(BatchRows, MaxRows) \ { <<>> })
    \cup { f \o [i \in 1..TopN |-> FillerRow] : f \in SeqsUpTo(BatchRows, MaxRows - 1) }

\* the configurations: the third holds a keyword that is JSON null
Configurations ==
    { [ rules |-> << Rule(1, "Strategic", <<S_ceo, S_cto>>), Rule(2, "Executive", <<S_vp>>) >>,
        exclusions |-> <<S_manager>>,
        mappings |-> S_AcmeCorp :> S_TODO_FILL ],
      [ rules |-> << Rule(2, "Executive", <<S_vp>>), Rule(1, "Strategic", <<S_ceo, S_cto>>) >>,
        exclusions |-> <<>>,
        mappings |-> NoMappings ],
      [ rules |-> << Rule(1, "Strategic", <<S_cto>>), Rule(2, "Executive", <<None, S_vp>>) >>,
        exclusions |-> <<S_manager>>,
        mappings |-> (S_AcmeCorp :> S_acme_io) @@ (S_Acme :> S_TODO_FILL) ] }

Init ==
    /\ impl \in Impls
    /\ pc = "apply"
    /\ \E c \in Configurations :
          /\ HIERARCHY_RULES = c.rules
          /\ EXCLUSION_KEYWORDS = c.exclusions
          /\ DOMAIN_MAPPINGS = c.mappings
          /\ rules = SortedByLevel(c.rules)
    /\ df \in Frames
    /\ results = <<>>
    /\ final_df = <<>>
    /\ title = <<>> /\ rank = 0 /\ company = <<>> /\ domain = <<>>
    /\ person = <<>> /\ emails = <<>>

\* df.parallel_apply(self._worker, axis=1), one row at a time
Worker ==
    /\ impl = "services" /\ pc = "apply" /\ Len(results) < Len(df)
    /\ LET row == df[Len(results) + 1]
       IN  IF worker_raises(rules, EXCLUSION_KEYWORDS, row)
           THEN pc' = "raised" /\ UNCHANGED results
           ELSE /\ results' = Append(results,
                                     worker(rules, EXCLUSION_KEYWORDS, DOMAIN_MAPPINGS, row))
                /\ UNCHANGED pc
    /\ UNCHANGED <<impl, HIERARCHY_RULES, EXCLUSION_KEYWORDS, DOMAIN_MAPPINGS, rules,
                   title, rank, company, domain, person, emails, df, final_df>>

\* Pipeline.run after the apply: dropna, sort_values, head, to_csv
RunFinalize ==
    /\ impl = "services" /\ pc = "apply" /\ Len(results) = Len(df)
    /\ final_df' = Finalize(results)
    /\ pc' = "saved"
    /\ UNCHANGED <<impl, HIERARCHY_RULES, EXCLUSION_KEYWORDS, DOMAIN_MAPPINGS, rules,
                   title, rank, company, domain, person, emails, df, results>>

\* strategy.process: df.apply(logic_handler.transform_row, axis=1), one row at
\* a time
TransformRow ==
    /\ impl = "main" /\ pc = "apply" /\ Len(results) < Len(df)
    /\ LET row == df[Len(results) + 1]
       IN  IF transform_row_raises(rules, EXCLUSION_KEYWORDS, row)
           THEN pc' = "raised" /\ UNCHANGED results
           ELSE /\ results' = Append(results,
                                     transform_row(rules, EXCLUSION_KEYWORDS,
                                                   DOMAIN_MAPPINGS, row))
                /\ UNCHANGED pc
    /\ UNCHANGED <<impl, HIERARCHY_RULES, EXCLUSION_KEYWORDS, DOMAIN_MAPPINGS, rules,
                   title, rank, company, domain, person, emails, df, final_df>>

\* PipelineContext.execute after the apply: dropna, sort_values, head, save
ExecuteFinalize ==
    /\ impl = "main" /\ pc = "apply" /\ Len(results) = Len(df)
    /\ final_df' = Finalize(results)
    /\ pc' = "saved"
    /\ UNCHANGED <<impl, HIERARCHY_RULES, EXCLUSION_KEYWORDS, DOMAIN_MAPPINGS, rules,
                   title, rank, company, domain, person, emails, df, results>>

Next == Worker \/ RunFinalize \/ TransformRow \/ ExecuteFinalize
Spec == Init /\ [][Next]_vars

----------------------------------------------------------------------------
(* Claims about the batch                                                  *)

\* the records the per-record orchestrator emitted, in input order
RECURSIVE Emitted(_)
Emitted(res) == IF res = <<>> THEN <<>> ELSE Head(res) \o Emitted(Tail(res))

Count(x, rows) == Cardinality({ i \in 1..Len(rows) : rows[i] = x })

\* C7: the output holds min(50, number of qualifying records) rows, in
\* ascending order of (level, company), and no qualifying record left out of it
\* precedes an included one.
C7_TopNOfQualifying ==
    pc = "saved" =>
        LET q == Emitted(results)
        IN  /\ Len(final_df) = (IF Len(q) < TopN THEN Len(q) ELSE TopN)
            /\ \A i, j \in 1..Len(final_df) : i < j => ~KeyLess(final_df[j], final_df[i])
            /\ \A i \in 1..Len(q) :
                   Count(q[i], final_df) = 0 /\ ~isna(q[i].Company) =>
                       \A j \in 1..Len(final_df) : ~KeyLess(q[i], final_df[j])

ConfiguredLevels == { HIERARCHY_RULES[i].level : i \in 1..Len(HIERARCHY_RULES) }

\* the rank the running implementation gives a row's title
RowRank(row) ==
    IF impl = "services"
    THEN assess_seniority(rules, EXCLUSION_KEYWORDS, sanitize(row.Title))
    ELSE get_rank(rules, EXCLUSION_KEYWORDS, Strip(unidecode(str(row.Title))))

Rerun(out) ==
    IF impl = "services"
    THEN worker(rules, EXCLUSION_KEYWORDS, DOMAIN_MAPPINGS,
                Row(out.Name, out.Title, out.Company))
    ELSE transform_row(rules, EXCLUSION_KEYWORDS, DOMAIN_MAPPINGS,
                       Row(out.Name, out.Title, out.Company))

\* C9: run again on the Name, Title and Company of a record it produced, the
\* orchestrator produces a record with the same level and the same domain.
\* (Stated of the record produced last: every record is the last one in the
\* state its worker step leads to.)
C9_RoundTrip ==
    (results # <<>> /\ results[Len(results)] # <<>>) =>
        LET out == results[Len(results)][1]
        IN  /\ RowRank(Row(out.Name, out.Title, out.Company)) \notin {Excluded, Raised}
            /\ Rerun(out) # <<>>
            /\ LevelOf(Rerun(out)[1]) = LevelOf(out)
            /\ DomainOf(Rerun(out)[1]) = DomainOf(out)

\* C9 witness: a produced record whose cleaned title differs from the input
\* title.
C9_Witness ==
    \E i \in 1..Len(results) : results[i] # <<>> /\ results[i][1].Title # df[i].Title

\* C10: a record whose processing raises is treated as excluded: the batch is
\* never left by the exception and goes on to write its output.
C10_ErrorDoesNotAbort == pc # "raised"

====
